---- MODULE Spec2Model ----
(***************************************************************************)
(* Procurer: multi-period procurement planning.                            *)
(* A model of the three planners of src/solvers (heuristic.py, linear.py,  *)
(* nonlinear.py) and of the helper they share (base.py).                   *)
(*                                                                         *)
(* Python dicts keep insertion order, and two of the claims are about key  *)
(* order, so a dict is modelled as a sequence of <<key, value>> pairs with *)
(* distinct keys, in insertion order.  Quantities are naturals.            *)
(***************************************************************************)
EXTENDS Integers, Sequences, FiniteSets, TLC

VARIABLES
    data,               \* the five input collections handed to solve(data)
    planner,            \* which planner the caller selected
    pc,                 \* position of the running solve call
    run,                \* 1 for the first solve call on data, 2 for a re-run
    periods,            \* sorted distinct periods (list)
    t_idx, p_idx,       \* position of the heuristic's nested for loops
    inv,                \* heuristic: on-hand inventory per product id
    pending_shipments,  \* heuristic: per product id, dict arrival period -> qty
    procurement_plan,   \* dict (product, supplier, period) -> qty
    shipments_plan,     \* dict (product, supplier, arrival period) -> qty
    inventory_plan,     \* dict (product, period) -> qty
    solution,           \* the record solve returns (NoSolution before)
    first_solution      \* what the first run returned, kept for the re-run

vars == <<data, planner, pc, run, periods, t_idx, p_idx, inv, pending_shipments,
          procurement_plan, shipments_plan, inventory_plan, solution,
          first_solution>>

(***************************************************************************)
(* Bounds of the model                                                     *)
(***************************************************************************)
MaxQty == 1
MaxLead == 2
MaxCapacity == 2
MaxOrderQty == 20

ProductIds == {1, 2}
SupplierIds == {1, 2}
Horizons == {{0, 1, 2}, {0, 2}}
UnitCosts == {1, 2}
MOQs == {0, 1, 2}

NoSolution == [status |-> "none"]
None == -1

(***************************************************************************)
(* Python built-ins                                                        *)
(***************************************************************************)
Max(a, b) == IF a >= b THEN a ELSE b

RECURSIVE SumSeq(_)
SumSeq(s) == IF s = <<>> THEN 0 ELSE Head(s) + SumSeq(Tail(s))

\* list.index(x): position of the first occurrence (0 when absent)
RECURSIVE IndexFrom(_, _, _)
IndexFrom(s, x, k) ==
    IF k > Len(s) THEN 0
    ELSE IF s[k] = x THEN k ELSE IndexFrom(s, x, k + 1)
Index(s, x) == IndexFrom(s, x, 1)

InList(s, x) == \E k \in DOMAIN s : s[k] = x
Range(s) == {s[k] : k \in DOMAIN s}

\* insertion of x into an ascending list, after the elements equal to it
RECURSIVE Insert(_, _)
Insert(s, x) ==
    IF s = <<>> THEN <<x>>
    ELSE IF x < Head(s) THEN <<x>> \o s
    ELSE <<Head(s)>> \o Insert(Tail(s), x)

RECURSIVE SortFrom(_, _)
SortFrom(s, acc) ==
    IF s = <<>> THEN acc ELSE SortFrom(Tail(s), Insert(acc, Head(s)))

\* the list a sort mistakenly left out would produce: the order as given
UnsortedList(s) == s
\* sorted(s) of a list of integers
SortedList(s) == SortFrom(s, <<>>)

\* the orders in which iterating a Python set may yield its elements
IterationOrders(S) ==
    {q \in [1..Cardinality(S) -> S] : \A a, b \in DOMAIN q : a # b => q[a] # q[b]}

\* dict operations on a sequence of <<key, value>> pairs
DictPos(d, k) == IF \E n \in DOMAIN d : d[n][1] = k
                 THEN CHOOSE n \in DOMAIN d : d[n][1] = k
                 ELSE 0
DictHas(d, k) == DictPos(d, k) # 0
DictGet(d, k, default) == IF DictHas(d, k) THEN d[DictPos(d, k)][2] ELSE default
DictSet(d, k, v) ==
    IF DictHas(d, k)
    THEN [d EXCEPT ![DictPos(d, k)] = <<k, v>>]
    ELSE Append(d, <<k, v>>)
DictDel(d, k) == SelectSeq(d, LAMBDA e : e[1] # k)
DictKeys(d) == [n \in DOMAIN d |-> d[n][1]]
DictValues(d) == [n \in DOMAIN d |-> d[n][2]]

(***************************************************************************)
(* Lookup tables (_prepare_lookups)                                        *)
(***************************************************************************)
\* set(d.period for d in demand)
PeriodSet(d) == {d.demand[k].period : k \in DOMAIN d.demand}

\* sorted(set(...)): whatever order the set is iterated in, the sorted list
SortedPeriods(d) == {SortedList(order) : order \in IterationOrders(PeriodSet(d))}

ProductIdList(d) == [k \in DOMAIN d.products |-> d.products[k].id]
SupplierIdList(d) == [k \in DOMAIN d.suppliers |-> d.suppliers[k].id]

\* a dict comprehension keeps the last record of a key
LastOf(hits) == CHOOSE k \in hits : \A m \in hits : m <= k

\* i.product_id for i in inventory: the keys of inv, pending_shipments, inventory_map
InventoryIds(d) == {d.inventory[k].product_id : k \in DOMAIN d.inventory}
InventoryMap(d, pid) ==
    d.inventory[LastOf({k \in DOMAIN d.inventory : d.inventory[k].product_id = pid})]

\* demand_map.get((product_id, period), 0)
DemandGet(d, pid, t) ==
    LET hits == {k \in DOMAIN d.demand :
                    d.demand[k].product_id = pid /\ d.demand[k].period = t}
    IN  IF hits = {} THEN 0 ELSE d.demand[LastOf(hits)].expected_quantity

\* s.lead_times.get(p.id, 0)
LeadTimesGet(s, pid) == IF pid \in DOMAIN s.lead_times THEN s.lead_times[pid] ELSE 0

\* lead_time_map.get((s_id, p_id), 0)
LeadTimeMapGet(d, sid, pid) ==
    LET hits == {k \in DOMAIN d.suppliers : d.suppliers[k].id = sid}
    IN  IF hits = {} THEN 0 ELSE LeadTimesGet(d.suppliers[LastOf(hits)], pid)

(***************************************************************************)
(* BaseSolver._complete_procurement_plan                                   *)
(***************************************************************************)
\* the keys in the order the three nested loops visit them
NestedKeys(outer, middle, inner) ==
    LET no == Len(outer)
        nm == Len(middle)
        ni == Len(inner)
    IN  [k \in 1..(no * nm * ni) |->
            <<outer[((k - 1) \div (nm * ni)) + 1],
              middle[(((k - 1) \div ni) % nm) + 1],
              inner[((k - 1) % ni) + 1]>>]

RECURSIVE FillPlan(_, _, _)
FillPlan(keys, plan, acc) ==
    IF keys = <<>> THEN acc
    ELSE LET sup == Head(keys)[1]
             prod == Head(keys)[2]
             per == Head(keys)[3]
             key == <<prod, sup, per>>
         IN  FillPlan(Tail(keys), plan, DictSet(acc, key, DictGet(plan, key, 0)))

\* a plan that keeps the caller's list order and loops over products first
CompletePlanUnsorted(plan, product_ids, supplier_ids, period_list) ==
    LET keys == NestedKeys(product_ids, supplier_ids, period_list)
    IN  [k \in DOMAIN keys |->
            <<<<keys[k][1], keys[k][2], keys[k][3]>>,
              DictGet(plan, <<keys[k][1], keys[k][2], keys[k][3]>>, 0)>>]

CompleteProcurementPlan(plan, product_ids, supplier_ids, period_list) ==
    FillPlan(NestedKeys(SortedList(supplier_ids), SortedList(product_ids),
                        SortedList(period_list)),
             plan, <<>>)

(***************************************************************************)
(* HeuristicSolver                                                         *)
(***************************************************************************)
INF == 1000000

\* p.unit_cost_by_supplier.get(s.id, float('inf'))
UnitCostGet(p, sid) ==
    IF sid \in DOMAIN p.unit_cost_by_supplier THEN p.unit_cost_by_supplier[sid] ELSE INF

\* sorted(offers, key=cost): a stable insertion by cost
RECURSIVE InsertOffer(_, _)
InsertOffer(s, x) ==
    IF s = <<>> THEN <<x>>
    ELSE IF x[2] < Head(s)[2] THEN <<x>> \o s
    ELSE <<Head(s)>> \o InsertOffer(Tail(s), x)

RECURSIVE SortOffers(_, _)
SortOffers(s, acc) ==
    IF s = <<>> THEN acc ELSE SortOffers(Tail(s), InsertOffer(acc, Head(s)))

Offers(p, suppliers) ==
    LET offering == SelectSeq(suppliers, LAMBDA s : p.id \in s.products_offered)
    IN  [k \in DOMAIN offering |-> <<offering[k].id, UnitCostGet(p, offering[k].id)>>]

\* a selection that takes the last of the equally cheapest offers
OrderMoqFromLastCheapest(p, suppliers) ==
    LET offers == SortOffers(Offers(p, suppliers), <<>>)
        priced == SelectSeq(offers, LAMBDA o : o[2] # INF)
        cheapest == SelectSeq(priced, LAMBDA o : o[2] = priced[1][2])
    IN  IF priced = <<>> THEN <<None, None>>
        ELSE <<cheapest[Len(cheapest)][1], p.MOQ>>

\* _order_moq_from_cheapest: <<s_id, order_qty>>, <<None, None>> without an offer
OrderMoqFromCheapest(p, suppliers) ==
    LET offers == SortOffers(Offers(p, suppliers), <<>>)
        priced == SelectSeq(offers, LAMBDA o : o[2] # INF)
    IN  IF priced = <<>> THEN <<None, None>> ELSE <<priced[1][1], p.MOQ>>

\* a planner that orders four MOQ lots as soon as the projection is not above
\* the safety stock
OrderFourLots(p, projected_inventory, safety_stock) ==
    IF projected_inventory <= safety_stock
    THEN <<OrderMoqFromCheapest(p, data.suppliers)[1], 4 * p.MOQ>>
    ELSE <<None, None>>

\* a planner that also orders when the projection equals the safety stock
OrderWhenNotAbove(p, projected_inventory, safety_stock) ==
    IF projected_inventory <= safety_stock
    THEN OrderMoqFromCheapest(p, data.suppliers)
    ELSE <<None, None>>

\* lines 46-48: the order of this (period, product), <<None, None>> when none
OrderIfShort(p, projected_inventory, safety_stock) ==
    IF projected_inventory < safety_stock
    THEN OrderMoqFromCheapest(p, data.suppliers)
    ELSE <<None, None>>

\* a projection that leaves the pending shipments out
ProjectWithoutShipments(product_id, current_period, current_inventory, pending) ==
    LET current_idx == Index(periods, current_period)
    IN  IF current_idx + 1 > Len(periods) THEN current_inventory
        ELSE Max(0, current_inventory
                    - DemandGet(data, product_id, periods[current_idx + 1]))

\* a projection that is not floored at 0
ProjectUnfloored(product_id, current_period, current_inventory, pending) ==
    LET current_idx == Index(periods, current_period)
    IN  IF current_idx + 1 > Len(periods) THEN current_inventory
        ELSE LET next_period == periods[current_idx + 1]
                 due == SelectSeq(pending, LAMBDA e : e[1] <= next_period)
             IN  current_inventory + SumSeq(DictValues(due))
                     - DemandGet(data, product_id, next_period)

\* _project_inventory_with_lead_times
ProjectInventoryWithLeadTimes(product_id, current_period, current_inventory, pending) ==
    LET current_idx == Index(periods, current_period)
    IN  IF current_idx + 1 > Len(periods) THEN current_inventory
        ELSE LET next_period == periods[current_idx + 1]
                 next_demand == DemandGet(data, product_id, next_period)
                 due == SelectSeq(pending, LAMBDA e : e[1] <= next_period)
                 shipments_arriving == SumSeq(DictValues(due))
             IN  Max(0, current_inventory + shipments_arriving - next_demand)

(***************************************************************************)
(* solve(data) of the heuristic planner, one action per loop iteration     *)
(***************************************************************************)
\* lines 20-32: lookups, empty plans, inv and pending_shipments per inventory record
HeuristicBegin ==
    /\ planner = "heuristic"
    /\ pc = "begin"
    /\ periods' \in SortedPeriods(data)
    /\ inv' = [pid \in InventoryIds(data) |-> InventoryMap(data, pid).initial_stock]
    /\ pending_shipments' = [pid \in InventoryIds(data) |-> <<>>]
    /\ procurement_plan' = <<>>
    /\ shipments_plan' = <<>>
    /\ inventory_plan' = <<>>
    /\ t_idx' = 1
    /\ p_idx' = 1
    /\ pc' = "loop"
    /\ UNCHANGED <<data, planner, run, solution, first_solution>>

LoopDone == t_idx > Len(periods) \/ Len(data.products) = 0

\* lines 36-63: the body of the loops for one (period, product)
HeuristicIteration ==
    /\ planner = "heuristic"
    /\ pc = "loop"
    /\ ~LoopDone
    /\ LET t == periods[t_idx]
           p == data.products[p_idx]
           last_p == p_idx = Len(data.products)
       IN  IF p.id \notin DOMAIN pending_shipments
           THEN \* pending_shipments[p.id] raises KeyError (line 37)
                /\ pc' = "raised"
                /\ UNCHANGED <<t_idx, p_idx, inv, pending_shipments, procurement_plan,
                               shipments_plan, inventory_plan>>
           ELSE LET arrives == DictHas(pending_shipments[p.id], t)
                    inv1 == IF arrives
                            THEN inv[p.id] + DictGet(pending_shipments[p.id], t, 0)
                            ELSE inv[p.id]
                    pend1 == IF arrives
                             THEN DictDel(pending_shipments[p.id], t)
                             ELSE pending_shipments[p.id]
                    projected_inventory ==
                        ProjectInventoryWithLeadTimes(p.id, t, inv1, pend1)
                    safety_stock == InventoryMap(data, p.id).safety_stock
                    choice == OrderIfShort(p, projected_inventory, safety_stock)
                    s_id == choice[1]
                    order_qty == choice[2]
                    orders == s_id # None
                    arrival_period == t + LeadTimeMapGet(data, s_id, p.id)
                    ships == orders /\ InList(periods, arrival_period)
                    pend2 == IF ships
                             THEN DictSet(pend1, arrival_period,
                                          DictGet(pend1, arrival_period, 0) + order_qty)
                             ELSE pend1
                    demand_qty == DemandGet(data, p.id, t)
                    inv2 == Max(0, inv1 - demand_qty)
                IN  /\ procurement_plan' =
                           IF orders
                           THEN DictSet(procurement_plan, <<p.id, s_id, t>>, order_qty)
                           ELSE procurement_plan
                    /\ shipments_plan' =
                           IF ships
                           THEN DictSet(shipments_plan, <<p.id, s_id, arrival_period>>,
                                        DictGet(shipments_plan,
                                                <<p.id, s_id, arrival_period>>, 0)
                                        + order_qty)
                           ELSE shipments_plan
                    /\ pending_shipments' = [pending_shipments EXCEPT ![p.id] = pend2]
                    /\ inv' = [inv EXCEPT ![p.id] = inv2]
                    /\ inventory_plan' = DictSet(inventory_plan, <<p.id, t>>, inv2)
                    /\ p_idx' = IF last_p THEN 1 ELSE p_idx + 1
                    /\ t_idx' = IF last_p THEN t_idx + 1 ELSE t_idx
                    /\ pc' = "loop"
    /\ UNCHANGED <<data, planner, run, periods, solution, first_solution>>

\* lines 65-71: the solution record
HeuristicSolution ==
    [status |-> "heuristic",
     procurement_plan |->
         CompleteProcurementPlan(procurement_plan, ProductIdList(data),
                                 SupplierIdList(data), periods),
     shipments_plan |-> SelectSeq(shipments_plan, LAMBDA e : e[2] > 0),
     inventory |-> inventory_plan]

\* a planner that keeps its running stock in the caller's inventory records
HeuristicReturnInPlace ==
    /\ planner = "heuristic"
    /\ pc = "loop"
    /\ LoopDone
    /\ solution' = HeuristicSolution
    /\ data' = [data EXCEPT !.inventory =
                    [k \in DOMAIN data.inventory |->
                        [data.inventory[k] EXCEPT
                            !.initial_stock = inv[data.inventory[k].product_id]]]]
    /\ pc' = "returned"
    /\ UNCHANGED <<planner, run, periods, t_idx, p_idx, inv, pending_shipments,
                   procurement_plan, shipments_plan, inventory_plan, first_solution>>

HeuristicReturn ==
    /\ planner = "heuristic"
    /\ pc = "loop"
    /\ LoopDone
    /\ solution' = HeuristicSolution
    /\ pc' = "returned"
    /\ UNCHANGED <<data, planner, run, periods, t_idx, p_idx, inv, pending_shipments,
                   procurement_plan, shipments_plan, inventory_plan, first_solution>>

\* the caller runs the heuristic planner again on the same data
Rerun ==
    /\ planner = "heuristic"
    /\ pc = "returned"
    /\ run = 1
    /\ first_solution' = solution
    /\ solution' = NoSolution
    /\ run' = 2
    /\ pc' = "begin"
    /\ UNCHANGED <<data, planner, periods, t_idx, p_idx, inv, pending_shipments,
                   procurement_plan, shipments_plan, inventory_plan>>

(***************************************************************************)
(* LinearSolver: the MILP formulation and its decoding.                    *)
(* The external solver is a black box: on a feasible problem it returns    *)
(* status "Optimal" and some assignment of least objective value; on an    *)
(* infeasible one, status "Infeasible" and whatever values it stopped at.  *)
(* An assignment of one product is a list, one element per period in       *)
(* order: [py |-> supplier id -> <<procure, order_placed>>, inv |-> stock] *)
(***************************************************************************)
UnpricedCost == 1000000
BigM == 1000000

\* the finite window of the solver's integer variables: no assignment that
\* satisfies balance and capacity has a larger procure or inv value
MaxProcure == MaxCapacity + 1

Sum2(f, S) == SumSeq([k \in DOMAIN S |-> f[S[k]][1]])

\* a balance that restarts every period from the initial stock
BalanceFromInitialStock(d, per, i, k, prev, procured, v) ==
    InventoryMap(d, i).initial_stock + procured - DemandGet(d, i, per[k]) = v

\* a balance that never deducts the demand
BalanceWithoutDemand(d, per, i, k, prev, procured, v) ==
    IF per[k] = per[1]
    THEN InventoryMap(d, i).initial_stock + procured = v
    ELSE prev + procured = v

\* InventoryBalance_i_t (lines 106-119)
InventoryBalance(d, per, i, k, prev, procured, v) ==
    IF per[k] = per[1]
    THEN InventoryMap(d, i).initial_stock + procured - DemandGet(d, i, per[k]) = v
    ELSE prev + procured - DemandGet(d, i, per[k]) = v

\* a formulation whose capacity rows were left out
NoWarehouseCap(d, i, v) == TRUE
\* WarehouseCap_i_t (line 121)
WarehouseCap(d, i, v) == v <= InventoryMap(d, i).warehouse_capacity

\* a formulation without the safety-stock rows
NoSafetyStockRow(d, i, v) == TRUE

\* SafetyStock_i_t (line 123)
SafetyStockRow(d, i, v) == v >= InventoryMap(d, i).safety_stock

\* a formulation without the shelf-life rows
NoExpiration(d, per, prod, t, v) == TRUE

\* Expiration_i_t (lines 125-129)
Expiration(d, per, prod, t, v) ==
    (t > per[1] + prod.expiration_periods) => v = 0

\* MOQ_min_i_j_t (line 135)
MoqMin(q, y, moq) == q >= moq * y

\* a formulation whose big-M rows were left out
NoMoqBigM(q, y) == TRUE
\* MOQ_bigM_i_j_t (line 138)
MoqBigM(q, y) == q <= BigM * y

\* the rows of one product and period, given the inventory of the period before
PeriodChoices(d, per, prod, k, prev) ==
    LET sids == SupplierIdList(d)
        pys == {py \in (0..MaxProcure) \X {0, 1} :
                   MoqMin(py[1], py[2], prod.MOQ) /\ MoqBigM(py[1], py[2])}
        invs == {v \in 0..MaxProcure :
                    /\ WarehouseCap(d, prod.id, v)
                    /\ SafetyStockRow(d, prod.id, v)
                    /\ Expiration(d, per, prod, per[k], v)}
    IN  UNION {{[py |-> f, inv |-> v] :
                   v \in {w \in invs : InventoryBalance(d, per, prod.id, k, prev,
                                                        Sum2(f, sids), w)}} :
                  f \in [Range(sids) -> pys]}

\* the assignments of one product from period k on, given the inventory before
RECURSIVE FeasibleFrom(_, _, _, _, _)
FeasibleFrom(d, per, prod, k, prev) ==
    IF k > Len(per) THEN {<<>>}
    ELSE UNION {UNION {{<<c>> \o rest :
                           c \in {c2 \in choices : c2.inv = v},
                           rest \in FeasibleFrom(d, per, prod, k + 1, v)} :
                       v \in {c.inv : c \in choices}} :
                   choices \in {PeriodChoices(d, per, prod, k, prev)}}

\* every assignment of the variables that satisfies _add_constraints: a list,
\* one element per product of d.products from position k on
RECURSIVE FeasibleProducts(_, _, _)
FeasibleProducts(d, per, k) ==
    IF k > Len(d.products) THEN {<<>>}
    ELSE {<<x>> \o rest : x \in FeasibleFrom(d, per, d.products[k], 1, 0),
                          rest \in FeasibleProducts(d, per, k + 1)}

LinearFeasible(d, per) == FeasibleProducts(d, per, 1)

\* (j, i) in logistics_map
LogisticsHas(d, j, i) ==
    \E k \in DOMAIN d.logistics_cost :
        d.logistics_cost[k].supplier_id = j /\ d.logistics_cost[k].product_id = i
LogisticsMap(d, j, i) ==
    d.logistics_cost[LastOf({k \in DOMAIN d.logistics_cost :
        d.logistics_cost[k].supplier_id = j /\ d.logistics_cost[k].product_id = i})]

\* product_map[i].unit_cost_by_supplier.get(j, 1e6)
LinearUnitCost(prod, j) ==
    IF j \in DOMAIN prod.unit_cost_by_supplier THEN prod.unit_cost_by_supplier[j]
    ELSE UnpricedCost

\* an objective that also charges the fixed cost of every order placed
ObjectiveWithFixedCost(d, per, a) ==
    LET sids == SupplierIdList(d)
        cell(k, n, m) ==
            LET prod == d.products[k]
                j == sids[m]
                q == a[k][n].py[j][1]
            IN  q * LinearUnitCost(prod, j)
                + (IF LogisticsHas(d, j, prod.id)
                   THEN q * LogisticsMap(d, j, prod.id).cost_per_unit
                        + a[k][n].py[j][2] * LogisticsMap(d, j, prod.id).fixed_cost
                   ELSE 0)
        holding(k, n) == a[k][n].inv * InventoryMap(d, d.products[k].id).holding_cost
    IN  SumSeq([k \in DOMAIN d.products |->
            SumSeq([n \in DOMAIN per |->
                holding(k, n) + SumSeq([m \in DOMAIN sids |-> cell(k, n, m)])])])

\* _add_objective (lines 84-97) evaluated at assignment a
LinearObjective(d, per, a) ==
    LET sids == SupplierIdList(d)
        cell(k, n, m) ==
            LET prod == d.products[k]
                j == sids[m]
                q == a[k][n].py[j][1]
            IN  q * LinearUnitCost(prod, j)
                + (IF LogisticsHas(d, j, prod.id)
                   THEN q * LogisticsMap(d, j, prod.id).cost_per_unit ELSE 0)
        holding(k, n) == a[k][n].inv * InventoryMap(d, d.products[k].id).holding_cost
    IN  SumSeq([k \in DOMAIN d.products |->
            SumSeq([n \in DOMAIN per |->
                holding(k, n) + SumSeq([m \in DOMAIN sids |-> cell(k, n, m)])])])

MinOf(S) == CHOOSE m \in S : \A c \in S : m <= c

\* the assignments of least objective value among the feasible ones
LinearOptimal(d, per) ==
    UNION {UNION {{a \in feas : LinearObjective(d, per, a) = least} :
                     least \in {MinOf({LinearObjective(d, per, a) : a \in feas})}} :
              feas \in {LinearFeasible(d, per)} \ {{}}}

\* the values an infeasible solve may leave in the variables
LinearLeftover(d, per) ==
    {[k \in DOMAIN d.products |-> [n \in DOMAIN per |-> c]] :
        c \in [py : [Range(SupplierIdList(d)) -> {<<0, 0>>, <<1, 1>>}], inv : {0, 1}]}

\* _extract_solution (lines 140-156): only strictly positive entries are kept
LinearProcurementPlan(d, per, a) ==
    LET sids == SupplierIdList(d)
        keys == NestedKeys(DictKeys([k \in DOMAIN d.products |-> <<k, 0>>]), sids, per)
        all == [k \in DOMAIN keys |->
                   <<<<d.products[keys[k][1]].id, keys[k][2], keys[k][3]>>,
                     a[keys[k][1]][Index(per, keys[k][3])].py[keys[k][2]][1]>>]
    IN  SelectSeq(all, LAMBDA e : e[2] > 0)

LinearInventory(d, per, a) ==
    LET all == [k \in 1..(Len(d.products) * Len(per)) |->
                   LET i == ((k - 1) \div Len(per)) + 1
                       n == ((k - 1) % Len(per)) + 1
                   IN  <<<<d.products[i].id, per[n]>>, a[i][n].inv>>]
    IN  SelectSeq(all, LAMBDA e : e[2] > 0)

ExtractSolution(d, per, status, a) ==
    [status |-> status,
     objective |-> LinearObjective(d, per, a),
     procurement_plan |-> LinearProcurementPlan(d, per, a),
     inventory |-> LinearInventory(d, per, a)]

\* a solve that reports every outcome as "Optimal"
AlwaysOptimal(best) == "Optimal"

\* LpStatus[prob.status] after prob.solve() (lines 48-49), best being the optimal
\* assignments: "Infeasible" stands for every status other than "Optimal"
SolveStatus(best) == IF best # {} THEN "Optimal" ELSE "Infeasible"

\* LinearSolver.solve (lines 28-52)
LinearSolve ==
    /\ planner = "linear"
    /\ pc = "begin"
    /\ \E per \in SortedPeriods(data) :
         \E best \in {LinearOptimal(data, per)} :
           /\ periods' = per
           /\ \E a \in (IF best # {} THEN best ELSE LinearLeftover(data, per)) :
                  solution' = ExtractSolution(data, per, SolveStatus(best), a)
    /\ procurement_plan' = solution'.procurement_plan
    /\ inventory_plan' = solution'.inventory
    /\ pc' = "returned"
    /\ UNCHANGED <<data, planner, run, t_idx, p_idx, inv, pending_shipments,
                   shipments_plan, first_solution>>

(***************************************************************************)
(* NonlinearSolver: the NLP formulation and its decoding.                  *)
(* The variables are non-negative reals; the model lets them take the      *)
(* natural numbers up to MaxProcure.  IPOPT is a black box: with solver    *)
(* status "ok" it returns an assignment that satisfies the constraints     *)
(* (a local optimum; which one is not modelled, so every feasible          *)
(* assignment is a possible outcome), and with status "warning" whatever   *)
(* values it stopped at.  An assignment is [procure |-> <<k, m, n>> ->     *)
(* qty, inv |-> <<k, n>> -> qty], indexed by the positions of the product, *)
(* supplier and period in their lists.                                     *)
(***************************************************************************)
\* a balance that counts every order in the period it is placed in
ShipmentsOfSamePeriod(d, per, a, k, n) ==
    SumSeq([m \in DOMAIN d.suppliers |-> a.procure[<<k, m, n>>]])

\* the shipments term of inventory_balance_rule (lines 105-118)
NonlinearShipments(d, per, a, k, n) ==
    LET i == d.products[k].id
        sids == SupplierIdList(d)
    IN  IF per[n] = per[1]
        THEN SumSeq([m \in DOMAIN sids |->
                 IF LeadTimeMapGet(d, sids[m], i) = 0 THEN a.procure[<<k, m, n>>] ELSE 0])
        ELSE SumSeq([m \in DOMAIN sids |->
                 SumSeq([o \in DOMAIN per |->
                     IF per[o] + LeadTimeMapGet(d, sids[m], i) = per[n]
                     THEN a.procure[<<k, m, o>>] ELSE 0])])

\* shelf_life_rule (lines 129-133): the row of product k and period index n on the
\* value v of inv, no row (Constraint.Skip) up to the expiration limit
ShelfLifeRule(d, per, k, n, v) ==
    (per[n] > per[1] + d.products[k].expiration_periods) => v = 0

\* inventory_balance, warehouse_cap, safety_stock, shelf_life (lines 104-134);
\* moq_rule (lines 136-138) only repeats the variables' lower bound 0
NonlinearConstraints(d, per, a) ==
    \A k \in DOMAIN d.products, n \in DOMAIN per :
        LET i == d.products[k].id
            prev == IF per[n] = per[1] THEN InventoryMap(d, i).initial_stock
                    ELSE a.inv[<<k, n - 1>>]
        IN  /\ prev + NonlinearShipments(d, per, a, k, n) - DemandGet(d, i, per[n])
                   = a.inv[<<k, n>>]
            /\ a.inv[<<k, n>>] <= InventoryMap(d, i).warehouse_capacity
            /\ a.inv[<<k, n>>] >= InventoryMap(d, i).safety_stock
            /\ ShelfLifeRule(d, per, k, n, a.inv[<<k, n>>])

\* the inventory the balance rows give for the procurement q (None where negative)
RECURSIVE BalancedInv(_, _, _, _, _)
BalancedInv(d, per, q, k, n) ==
    LET a == [procure |-> q]
        i == d.products[k].id
        prev == IF n = 1 THEN InventoryMap(d, i).initial_stock
                ELSE BalancedInv(d, per, q, k, n - 1)
    IN  IF prev = None THEN None
        ELSE Max(None, prev + NonlinearShipments(d, per, a, k, n) - DemandGet(d, i, per[n]))

NonlinearFeasible(d, per) ==
    LET cells == (DOMAIN d.products) \X (DOMAIN d.suppliers) \X (DOMAIN per)
        pairs == (DOMAIN d.products) \X (DOMAIN per)
        cand == {[procure |-> q, inv |-> [c \in pairs |-> BalancedInv(d, per, q, c[1], c[2])]] :
                    q \in [cells -> 0..MaxProcure]}
    IN  {a \in cand : (\A c \in pairs : a.inv[c] >= 0) /\ NonlinearConstraints(d, per, a)}

NonlinearLeftover(d, per) ==
    {[procure |-> [c \in (DOMAIN d.products) \X (DOMAIN d.suppliers) \X (DOMAIN per) |-> q],
      inv |-> [c \in (DOMAIN d.products) \X (DOMAIN per) |-> v]] : q \in {0, 1}, v \in {0, 1}}

\* a rule that grants the discount on the whole order once it passes the threshold
DiscountOnWholeOrder(qty, unit_cost, discounts) ==
    LET threshold == IF discounts.present THEN discounts.threshold ELSE 0
        discount == IF discounts.present THEN discounts.discount ELSE 0
    IN  IF qty <= threshold THEN qty * unit_cost * 100
        ELSE qty * unit_cost * (100 - discount)

\* one term of procurement_cost_rule (lines 70-79), in hundredths of a money unit;
\* the discount is a whole percentage, and a product without a policy (None or an
\* empty dict) keeps threshold 0 and discount 0
ProcurementCostTerm(qty, unit_cost, discounts) ==
    LET threshold == IF discounts.present THEN discounts.threshold ELSE 0
        discount == IF discounts.present THEN discounts.discount ELSE 0
    IN  IF qty <= threshold THEN qty * unit_cost * 100
        ELSE threshold * unit_cost * 100
             + (qty - threshold) * unit_cost * (100 - discount)

\* procurement_cost_rule + logistics_cost_rule + holding_cost_rule (lines 64-101),
\* in hundredths of a money unit; discount is a whole percentage here
NonlinearObjective(d, per, a) ==
    LET sids == SupplierIdList(d)
        cell(k, m, n) ==
            LET prod == d.products[k]
                qty == a.procure[<<k, m, n>>]
                unit_cost == LinearUnitCost(prod, sids[m])
            IN  ProcurementCostTerm(qty, unit_cost, prod.discounts)
                + (IF LogisticsHas(d, sids[m], prod.id)
                   THEN qty * LogisticsMap(d, sids[m], prod.id).cost_per_unit * 100 ELSE 0)
        holding(k, n) ==
            a.inv[<<k, n>>] * InventoryMap(d, d.products[k].id).holding_cost * 100
    IN  SumSeq([k \in DOMAIN d.products |->
            SumSeq([n \in DOMAIN per |->
                holding(k, n) + SumSeq([m \in DOMAIN sids |-> cell(k, m, n)])])])

\* an extraction that keeps every arrival, whatever its period
AlwaysArrives(per, arrival_period) == TRUE

\* line 159: the arrival period is one of the periods
ArrivesInHorizon(per, arrival_period) == InList(per, arrival_period)

\* _extract_solution (lines 144-160): orders and their arrivals, products first
RECURSIVE NonlinearPlans(_, _, _, _, _)
NonlinearPlans(d, per, a, keys, acc) ==
    IF keys = <<>> THEN acc
    ELSE LET k == Head(keys)[1]
             m == Head(keys)[2]
             n == Head(keys)[3]
             i == d.products[k].id
             j == d.suppliers[m].id
             qty == a.procure[<<k, m, n>>]
             arrival_period == per[n] + LeadTimeMapGet(d, j, i)
         IN  NonlinearPlans(d, per, a, Tail(keys),
                 IF qty > 0
                 THEN [procurement |-> DictSet(acc.procurement, <<i, j, per[n]>>, qty),
                       shipments |->
                           IF ArrivesInHorizon(per, arrival_period)
                           THEN DictSet(acc.shipments, <<i, j, arrival_period>>,
                                        DictGet(acc.shipments, <<i, j, arrival_period>>, 0)
                                        + qty)
                           ELSE acc.shipments]
                 ELSE acc)

Positions(s) == [k \in DOMAIN s |-> k]

NonlinearRawPlans(d, per, a) ==
    NonlinearPlans(d, per, a,
                   NestedKeys(Positions(d.products), Positions(d.suppliers), Positions(per)),
                   [procurement |-> <<>>, shipments |-> <<>>])

\* lines 162-167
NonlinearInventory(d, per, a) ==
    [c \in 1..(Len(d.products) * Len(per)) |->
        LET k == ((c - 1) \div Len(per)) + 1
            n == ((c - 1) % Len(per)) + 1
        IN  <<<<d.products[k].id, per[n]>>, a.inv[<<k, n>>]>>]

\* NonlinearSolver.solve (lines 19-33) and _extract_solution (lines 142-179)
NonlinearSolve ==
    /\ planner = "nonlinear"
    /\ pc = "begin"
    /\ \E per \in SortedPeriods(data) :
         \E feas \in {NonlinearFeasible(data, per)} :
           \E a \in (IF feas # {} THEN feas ELSE NonlinearLeftover(data, per)) :
             \E raw \in {NonlinearRawPlans(data, per, a)} :
               /\ periods' = per
               /\ procurement_plan' = raw.procurement
               /\ shipments_plan' = raw.shipments
               /\ inventory_plan' = NonlinearInventory(data, per, a)
               /\ solution' =
                      [status |-> IF feas # {} THEN "ok" ELSE "warning",
                       objective |-> NonlinearObjective(data, per, a),
                       procurement_plan |->
                           CompleteProcurementPlan(raw.procurement, ProductIdList(data),
                                                   SupplierIdList(data), per),
                       shipments_plan |-> raw.shipments,
                       inventory |-> NonlinearInventory(data, per, a)]
    /\ pc' = "returned"
    /\ UNCHANGED <<data, planner, run, t_idx, p_idx, inv, pending_shipments,
                   first_solution>>

(***************************************************************************)
(* Inputs: the states solve(data) can be called in                         *)
(***************************************************************************)
SetToList(S) == SortedList(CHOOSE q \in IterationOrders(S) : TRUE)

\* what one supplier's records and the product's price table say of one product
CatalogEntries ==
    {[offered |-> TRUE, price |-> c, lead |-> l] : c \in UnitCosts, l \in 0..MaxLead}
    \cup {[offered |-> TRUE, price |-> None, lead |-> 0],     \* offered, no price
          [offered |-> FALSE, price |-> 1, lead |-> 0]}       \* priced, not offered

NoRecord == [present |-> FALSE]
NoDiscount == [present |-> FALSE]
InventoryChoices ==
    {NoRecord} \cup
    {[present |-> TRUE, initial_stock |-> i, safety_stock |-> ss,
      warehouse_capacity |-> MaxQty, holding_cost |-> 1] : i, ss \in 0..MaxQty}

\* the entries of supplier 2, the first of the two-supplier list <<2, 1>>
SecondSupplierEntries ==
    {[offered |-> TRUE, price |-> 1, lead |-> 1],
     [offered |-> TRUE, price |-> 2, lead |-> 0],
     [offered |-> TRUE, price |-> None, lead |-> 0],
     [offered |-> FALSE, price |-> 1, lead |-> 0]}

Catalogs(sups) ==
    {[sid \in Range(sups) |-> IF sid = 1 THEN e1 ELSE e2] :
        e1 \in CatalogEntries, e2 \in SecondSupplierEntries}

\* per product: MOQ, shelf life, inventory record, demand per period, catalog per supplier
Profiles(sups, H) ==
    [MOQ : MOQs, expiration_periods : {12}, discounts : {NoDiscount},
     inventory : InventoryChoices,
     demand : [H -> 0..MaxQty], catalog : Catalogs(sups)]

\* the second product of a two-product input
SecondProfiles(sups, H) ==
    {[MOQ |-> 1, expiration_periods |-> 12, discounts |-> NoDiscount,
      inventory |-> [present |-> TRUE, initial_stock |-> 0, safety_stock |-> 1,
                     warehouse_capacity |-> MaxQty, holding_cost |-> 1],
      demand |-> [t \in H |-> 1],
      catalog |-> [s \in Range(sups) |-> [offered |-> TRUE, price |-> 1, lead |-> 1]]],
     [MOQ |-> 2, expiration_periods |-> 12, discounts |-> NoDiscount,
      inventory |-> [present |-> TRUE, initial_stock |-> 1, safety_stock |-> 1,
                     warehouse_capacity |-> MaxQty, holding_cost |-> 1],
      demand |-> [t \in H |-> 0],
      catalog |-> [s \in Range(sups) |-> [offered |-> TRUE, price |-> 2, lead |-> 2]]]}

\* the five collections built from the per-product profiles prof[pid]
MakeData(prods, sups, H, prof, logistics) ==
    LET hs == SetToList(H)
        np == Len(prods)
        with_inv == SelectSeq(prods, LAMBDA pid : prof[pid].inventory.present)
    IN  [products |->
             [k \in DOMAIN prods |->
                 LET pid == prods[k]
                     priced == {sid \in Range(sups) : prof[pid].catalog[sid].price # None}
                 IN  [id |-> pid,
                      MOQ |-> prof[pid].MOQ,
                      unit_cost_by_supplier |->
                          [sid \in priced |-> prof[pid].catalog[sid].price],
                      expiration_periods |-> prof[pid].expiration_periods,
                      discounts |-> prof[pid].discounts]],
         suppliers |->
             [k \in DOMAIN sups |->
                 LET sid == sups[k]
                 IN  [id |-> sid,
                      products_offered |->
                          {pid \in Range(prods) : prof[pid].catalog[sid].offered},
                      lead_times |->
                          [pid \in {q \in Range(prods) : prof[q].catalog[sid].lead > 0}
                              |-> prof[pid].catalog[sid].lead]]],
         demand |->
             [k \in 1..(Len(hs) * np) |->
                 LET pid == prods[((k - 1) % np) + 1]
                     t == hs[((k - 1) \div np) + 1]
                 IN  [product_id |-> pid, period |-> t,
                      expected_quantity |-> prof[pid].demand[t]]],
         inventory |->
             [k \in DOMAIN with_inv |->
                 LET r == prof[with_inv[k]].inventory
                 IN  [product_id |-> with_inv[k],
                      initial_stock |-> r.initial_stock,
                      holding_cost |-> r.holding_cost,
                      warehouse_capacity |-> r.warehouse_capacity,
                      safety_stock |-> r.safety_stock]],
         logistics_cost |-> logistics]

\* minimal_data() of tests/test_solvers.py (P1 and S1 are ids 1; money in half units)
MinimalData ==
    MakeData(<<1>>, <<1>>, {0, 1},
             [pid \in {1} |->
                 [MOQ |-> 5, expiration_periods |-> 12, discounts |-> NoDiscount,
                  inventory |-> [present |-> TRUE, initial_stock |-> 0, safety_stock |-> 0,
                                 warehouse_capacity |-> 100, holding_cost |-> 1],
                  demand |-> [t \in {0, 1} |-> IF t = 0 THEN 0 ELSE 20],
                  catalog |-> [sid \in {1} |-> [offered |-> TRUE, price |-> 20, lead |-> 1]]]],
             <<[supplier_id |-> 1, product_id |-> 1, cost_per_unit |-> 4, fixed_cost |-> 2]>>)

InitCommon ==
    /\ pc = "begin"
    /\ run = 1
    /\ periods = <<>>
    /\ t_idx = 1
    /\ p_idx = 1
    /\ inv = <<>>
    /\ pending_shipments = <<>>
    /\ procurement_plan = <<>>
    /\ shipments_plan = <<>>
    /\ inventory_plan = <<>>
    /\ solution = NoSolution
    /\ first_solution = NoSolution

\* the profiles of a product that starts empty, below its safety stock of 1
OrderingProfiles(sups, H) ==
    [MOQ : MOQs, expiration_periods : {12}, discounts : {NoDiscount},
     inventory : {[present |-> TRUE, initial_stock |-> 0, safety_stock |-> 1,
                   warehouse_capacity |-> MaxQty, holding_cost |-> 1]},
     demand : [H -> 0..MaxQty], catalog : Catalogs(sups)]

\* inputs of the heuristic planner: the test's scenario; one product and one
\* supplier over both horizons; one product and two suppliers, and two products
\* and one supplier, over periods 0, 1, 2
InitHeuristic ==
    /\ planner = "heuristic"
    /\ \/ data = MinimalData
       \/ \E H \in Horizons :
              \E p1 \in Profiles(<<1>>, H) :
                  data = MakeData(<<1>>, <<1>>, H, [pid \in {1} |-> p1], <<>>)
       \/ \E p1 \in OrderingProfiles(<<2, 1>>, {0, 1, 2}) :
              data = MakeData(<<1>>, <<2, 1>>, {0, 1, 2}, [pid \in {1} |-> p1], <<>>)
       \/ \E p1 \in OrderingProfiles(<<1>>, {0, 1, 2}),
             p2 \in SecondProfiles(<<1>>, {0, 1, 2}) :
              data = MakeData(<<2, 1>>, <<1>>, {0, 1, 2},
                              [pid \in {1, 2} |-> IF pid = 1 THEN p1 ELSE p2], <<>>)
    /\ InitCommon

\* inputs of the exact planner: one product, one or two suppliers, periods 1 and 2
LinearQtys == {0, 1}
LinearCatalogs(sups) ==
    {[sid \in Range(sups) |-> IF sid = 1 THEN e1 ELSE e2] :
        e1 \in SecondSupplierEntries,
        e2 \in {[offered |-> TRUE, price |-> 1, lead |-> 1],
                [offered |-> TRUE, price |-> None, lead |-> 0]}}

LinearProfiles(sups, H) ==
    [MOQ : MOQs, expiration_periods : {0, 12}, discounts : {NoDiscount},
     inventory : [present : {TRUE}, initial_stock : LinearQtys, safety_stock : LinearQtys,
                  warehouse_capacity : 1..MaxCapacity, holding_cost : {1}],
     demand : [H -> LinearQtys], catalog : LinearCatalogs(sups)]

InitLinear ==
    /\ planner = "linear"
    /\ \E sups \in {<<1>>, <<2, 1>>} :
           \E p1 \in LinearProfiles(sups, {1, 2}) :
               data = MakeData(<<1>>, sups, {1, 2}, [pid \in {1} |-> p1],
                               <<[supplier_id |-> 1, product_id |-> 1,
                                  cost_per_unit |-> 1, fixed_cost |-> 3]>>)
    /\ InitCommon

\* inputs of the discount-aware planner: periods 0 and 1, one product with one or
\* two suppliers, or two products with one supplier
NonlinearProfiles(sups, H) ==
    [MOQ : {2}, expiration_periods : {12}, discounts : {NoDiscount},
     inventory : [present : {TRUE}, initial_stock : LinearQtys, safety_stock : LinearQtys,
                  warehouse_capacity : 1..MaxCapacity, holding_cost : {1}],
     demand : [H -> LinearQtys],
     catalog : {[sid \in Range(sups) |->
                    [offered |-> TRUE, price |-> 1, lead |-> IF sid = 1 THEN l ELSE 1]] :
                   l \in 0..MaxLead}]

\* the same products with a shelf life that ends with the first period
PerishableProfiles(sups, H) ==
    {[prof EXCEPT !.expiration_periods = 0] : prof \in NonlinearProfiles(sups, H)}

InitNonlinear ==
    /\ planner = "nonlinear"
    /\ \/ \E sups \in {<<1>>, <<2, 1>>} :
              \E p1 \in NonlinearProfiles(sups, {0, 1}) :
                  data = MakeData(<<1>>, sups, {0, 1}, [pid \in {1} |-> p1], <<>>)
       \/ \E p1 \in NonlinearProfiles(<<1>>, {0, 1}), p2 \in SecondProfiles(<<1>>, {0, 1}) :
              data = MakeData(<<2, 1>>, <<1>>, {0, 1},
                              [pid \in {1, 2} |-> IF pid = 1 THEN p1 ELSE p2], <<>>)
    /\ InitCommon

Init == InitHeuristic \/ InitLinear \/ InitNonlinear

Next ==
    \/ HeuristicBegin
    \/ HeuristicIteration
    \/ HeuristicReturn
    \/ LinearSolve
    \/ NonlinearSolve

Spec == Init /\ [][Next]_vars

\* the exact planner on its own
NextLinear == LinearSolve
SpecLinear == InitLinear /\ [][NextLinear]_vars

\* the heuristic planner on its own
NextHeuristic ==
    \/ HeuristicBegin
    \/ HeuristicIteration
    \/ HeuristicReturn

SpecHeuristic == InitHeuristic /\ [][NextHeuristic]_vars

\* the discount-aware planner on its own
NextNonlinear == NonlinearSolve
SpecNonlinear == InitNonlinear /\ [][NextNonlinear]_vars

\* the two planners that solve a formulation, on products with and without a
\* shelf life that ends inside the horizon
InitShelfLife ==
    \/ InitLinear
    \/ /\ planner = "nonlinear"
       /\ \E p1 \in NonlinearProfiles(<<1>>, {0, 1}) \cup PerishableProfiles(<<1>>, {0, 1}) :
              data = MakeData(<<1>>, <<1>>, {0, 1}, [pid \in {1} |-> p1], <<>>)
       /\ InitCommon

NextSolvers == LinearSolve \/ NonlinearSolve
SpecSolvers == InitShelfLife /\ [][NextSolvers]_vars

\* the same, with the caller running the planner a second time on the same data
NextRerun == Next \/ Rerun
SpecRerun == Init /\ [][NextRerun]_vars

(***************************************************************************)
(* The cost of one order under a discount policy, on its own               *)
(***************************************************************************)
DiscountPolicies ==
    {NoDiscount} \cup
    {[present |-> TRUE, threshold |-> th, discount |-> pct] :
        th \in {0, 5, 10}, pct \in {0, 20, 50}}

InitDiscount ==
    /\ planner = "procurement_cost"
    /\ data \in [qty : 0..MaxOrderQty, unit_cost : {0} \cup UnitCosts,
                  discounts : DiscountPolicies]
    /\ InitCommon

\* procurement_cost_rule evaluated for one (product, supplier, period)
ProcurementCostRule ==
    /\ planner = "procurement_cost"
    /\ pc = "begin"
    /\ solution' = [status |-> "cost",
                    objective |-> ProcurementCostTerm(data.qty, data.unit_cost,
                                                      data.discounts)]
    /\ pc' = "returned"
    /\ UNCHANGED <<data, planner, run, periods, t_idx, p_idx, inv, pending_shipments,
                   procurement_plan, shipments_plan, inventory_plan, first_solution>>

NextDiscount == ProcurementCostRule
SpecDiscount == InitDiscount /\ [][NextDiscount]_vars

(***************************************************************************)
(* utils/validation.py                                                     *)
(***************************************************************************)
\* validate_data: TRUE where it returns True, FALSE where it raises ValueError
ValidateData(d) ==
    LET product_ids == {d.products[k].id : k \in DOMAIN d.products}
        supplier_ids == {d.suppliers[k].id : k \in DOMAIN d.suppliers}
    IN  /\ \A k \in DOMAIN d.demand : d.demand[k].product_id \in product_ids
        /\ \A k \in DOMAIN d.inventory : d.inventory[k].product_id \in product_ids
        /\ \A k \in DOMAIN d.logistics_cost :
               /\ d.logistics_cost[k].supplier_id \in supplier_ids
               /\ d.logistics_cost[k].product_id \in product_ids

\* a validation that checks the supplier of a logistics record but not its product
ValidateSuppliersOnly(d) ==
    LET product_ids == {d.products[k].id : k \in DOMAIN d.products}
        supplier_ids == {d.suppliers[k].id : k \in DOMAIN d.suppliers}
        bad_demand == {k \in DOMAIN d.demand : d.demand[k].product_id \notin product_ids}
        bad_inventory ==
            {k \in DOMAIN d.inventory : d.inventory[k].product_id \notin product_ids}
        bad_logistics ==
            {k \in DOMAIN d.logistics_cost :
                d.logistics_cost[k].supplier_id \notin supplier_ids}
    IN  IF bad_demand # {} THEN "Demand references unknown product_id"
        ELSE IF bad_inventory # {} THEN "Inventory references unknown product_id"
        ELSE IF bad_logistics # {} THEN "LogisticsCost references unknown supplier_id"
        ELSE "True"

\* validate_data, statement by statement: "True" where it returns True, else the
\* message of the ValueError the first failing check raises (lines 17-31)
ValidateDataOutcome(d) ==
    LET product_ids == {d.products[k].id : k \in DOMAIN d.products}
        supplier_ids == {d.suppliers[k].id : k \in DOMAIN d.suppliers}
        bad_demand == {k \in DOMAIN d.demand : d.demand[k].product_id \notin product_ids}
        bad_inventory ==
            {k \in DOMAIN d.inventory : d.inventory[k].product_id \notin product_ids}
        bad_logistics ==
            {k \in DOMAIN d.logistics_cost :
                \/ d.logistics_cost[k].supplier_id \notin supplier_ids
                \/ d.logistics_cost[k].product_id \notin product_ids}
        first_bad == CHOOSE k \in bad_logistics : \A j \in bad_logistics : k <= j
    IN  IF bad_demand # {} THEN "Demand references unknown product_id"
        ELSE IF bad_inventory # {} THEN "Inventory references unknown product_id"
        ELSE IF bad_logistics # {}
             THEN IF d.logistics_cost[first_bad].supplier_id \notin supplier_ids
                  THEN "LogisticsCost references unknown supplier_id"
                  ELSE "LogisticsCost references unknown product_id"
        ELSE "True"

\* lists of at most two records over the listed ids
UpToTwo(S) == {<<>>} \cup {<<x>> : x \in S} \cup {<<x, y>> : x \in S, y \in S}

\* inputs of validate_data: records may name ids that no product or supplier has
InitValidate ==
    /\ planner = "validate"
    /\ \E prods \in {<<1>>, <<2, 1>>}, sups \in {<<1>>, <<2, 1>>} :
         \E dem \in UpToTwo(ProductIds), stock \in {<<>>} \cup {<<x>> : x \in ProductIds},
            logi \in UpToTwo(SupplierIds \X ProductIds) :
             data = [products |-> [k \in DOMAIN prods |-> [id |-> prods[k]]],
                     suppliers |-> [k \in DOMAIN sups |-> [id |-> sups[k]]],
                     demand |-> [k \in DOMAIN dem |->
                                    [product_id |-> dem[k], period |-> k,
                                     expected_quantity |-> 1]],
                     inventory |-> [k \in DOMAIN stock |-> [product_id |-> stock[k]]],
                     logistics_cost |-> [k \in DOMAIN logi |->
                                            [supplier_id |-> logi[k][1],
                                             product_id |-> logi[k][2]]]]
    /\ InitCommon

\* a call of validate_data(data): it returns True or raises ValueError
Validate ==
    /\ planner = "validate"
    /\ pc = "begin"
    /\ \E outcome \in {ValidateDataOutcome(data)} :
           IF outcome = "True"
           THEN /\ solution' = [status |-> "True"]
                /\ pc' = "returned"
           ELSE /\ solution' = [status |-> "ValueError", message |-> outcome]
                /\ pc' = "raised"
    /\ UNCHANGED <<data, planner, run, periods, t_idx, p_idx, inv, pending_shipments,
                   procurement_plan, shipments_plan, inventory_plan, first_solution>>

NextValidate == Validate
SpecValidate == InitValidate /\ [][NextValidate]_vars

(***************************************************************************)
(* Claims                                                                  *)
(***************************************************************************)
HeuristicReturned == planner = "heuristic" /\ pc = "returned"

\* inventory records of the products that have one
SafetyStock(pid) == InventoryMap(data, pid).safety_stock
WarehouseCapacity(pid) == InventoryMap(data, pid).warehouse_capacity

\* C1: in the plan the heuristic planner returns, inventory[(product, period)] is
\* at least safety_stock[product] for every product and every period of the horizon.
C1_HeuristicInventoryAtLeastSafetyStock ==
    HeuristicReturned =>
        \A k \in DOMAIN data.products, n \in DOMAIN periods :
            LET pid == data.products[k].id
            IN  /\ DictHas(solution.inventory, <<pid, periods[n]>>)
                /\ DictGet(solution.inventory, <<pid, periods[n]>>, 0) >= SafetyStock(pid)

\* C2: in the plan the heuristic planner returns, inventory[(product, period)] is
\* at most warehouse_capacity[product] for every product and every period, also
\* when initial stock plus arriving MOQ shipments exceed the capacity.
C2_HeuristicInventoryAtMostCapacity ==
    HeuristicReturned =>
        \A k \in DOMAIN data.products, n \in DOMAIN periods :
            LET pid == data.products[k].id
            IN  /\ DictHas(solution.inventory, <<pid, periods[n]>>)
                /\ DictGet(solution.inventory, <<pid, periods[n]>>, 0)
                       <= WarehouseCapacity(pid)

\* arrivals(t) under the heuristic's own convention: what the returned shipments
\* plan says arrived for the product in period t, over all suppliers
PlanArrivals(pid, t) ==
    SumSeq([k \in DOMAIN data.suppliers |->
               DictGet(solution.shipments_plan, <<pid, data.suppliers[k].id, t>>, 0)])

\* C8: for every input validate_data accepts, HeuristicSolver.solve does not raise
\* and returns a plan of status 'heuristic' with an inventory entry for every
\* (product, period) of the horizon.
C8_HeuristicNeverRaisesOnValidData ==
    (planner = "heuristic" /\ ValidateData(data)) =>
        /\ pc # "raised"
        /\ pc = "returned" =>
               /\ solution.status = "heuristic"
               /\ \A k \in DOMAIN data.products, n \in DOMAIN periods :
                      DictHas(solution.inventory, <<data.products[k].id, periods[n]>>)

\* C10: inventory balance of the heuristic plan: for every product and period,
\* inventory = max(0, previous inventory + arrivals - demand), the previous
\* inventory of the first period being initial_stock; for every lead time.
C10_HeuristicInventoryBalance ==
    HeuristicReturned =>
        \A k \in DOMAIN data.products, n \in DOMAIN periods :
            LET pid == data.products[k].id
                t == periods[n]
                previous == IF n = 1 THEN InventoryMap(data, pid).initial_stock
                            ELSE DictGet(solution.inventory, <<pid, periods[n - 1]>>, 0)
            IN  DictGet(solution.inventory, <<pid, t>>, 0)
                    = Max(0, previous + PlanArrivals(pid, t) - DemandGet(data, pid, t))

LinearReturned == planner = "linear" /\ pc = "returned"

\* C3: in every plan the exact planner returns with status "Optimal", for every
\* product i and period t the end-of-period inventory, an entry missing from the
\* sparse inventory map counting as 0, lies between safety_stock[i] and
\* warehouse_capacity[i].
C3_OptimalInventoryWithinBounds ==
    (LinearReturned /\ solution.status = "Optimal") =>
        \A k \in DOMAIN data.products, n \in DOMAIN periods :
            LET pid == data.products[k].id
                level == DictGet(solution.inventory, <<pid, periods[n]>>, 0)
            IN  SafetyStock(pid) <= level /\ level <= WarehouseCapacity(pid)

\* an Optimal plan that placed an order, with one period full to capacity and
\* another period absent from the sparse map
C3_Witness ==
    /\ LinearReturned
    /\ solution.status = "Optimal"
    /\ solution.procurement_plan # <<>>
    /\ \E k \in DOMAIN data.products, n \in DOMAIN periods :
           DictGet(solution.inventory, <<data.products[k].id, periods[n]>>, 0)
               = WarehouseCapacity(data.products[k].id)
    /\ \E k \in DOMAIN data.products, n \in DOMAIN periods :
           ~DictHas(solution.inventory, <<data.products[k].id, periods[n]>>)

\* the positive orders of an assignment of the exact planner respect the MOQ
OrdersRespectMoq(d, a) ==
    \A k \in DOMAIN a : \A n \in DOMAIN a[k] : \A j \in DOMAIN a[k][n].py :
        a[k][n].py[j][1] > 0 => a[k][n].py[j][1] >= d.products[k].MOQ

\* C4: MOQ property of the exact planner: in every assignment satisfying its
\* constraints (procure >= MOQ*order_placed, procure <= BIG_M*order_placed,
\* order_placed binary) every strictly positive procurement is at least MOQ[i],
\* and so is every strictly positive entry of a returned Optimal procurement plan.
C4_PositiveOrdersAtLeastMoq ==
    /\ (planner = "linear" /\ pc = "begin") =>
           \A per \in SortedPeriods(data) :
               \A a \in LinearFeasible(data, per) : OrdersRespectMoq(data, a)
    /\ (LinearReturned /\ solution.status = "Optimal") =>
           \A e \in DOMAIN solution.procurement_plan :
               \A k \in DOMAIN data.products :
                   data.products[k].id = solution.procurement_plan[e][1][1] =>
                       solution.procurement_plan[e][2] >= data.products[k].MOQ

\* an Optimal plan that orders the MOQ of 2 although one unit is all that is missing
C4_Witness ==
    /\ LinearReturned
    /\ solution.status = "Optimal"
    /\ \E e \in DOMAIN solution.procurement_plan :
           /\ solution.procurement_plan[e][2] = 2
           /\ \A k \in DOMAIN data.products : data.products[k].MOQ = 2
           /\ \A k \in DOMAIN data.demand : data.demand[k].expected_quantity <= 1

\* supplier sid offers product pid and the product has a unit price for sid
OfferedAndPriced(d, pid, sid) ==
    /\ \E m \in DOMAIN d.suppliers :
           d.suppliers[m].id = sid /\ pid \in d.suppliers[m].products_offered
    /\ \E k \in DOMAIN d.products :
           d.products[k].id = pid /\ sid \in DOMAIN d.products[k].unit_cost_by_supplier

\* C5: in every plan returned by the exact planner, each strictly positive
\* procurement entry (product, supplier, period) uses a supplier that offers the
\* product and has a unit price for it, even when the pair is the only way to
\* satisfy the constraints.  Stated here for the plans of status "Optimal", the
\* ones the solver stands behind; the claim covers them.
C5_OnlyOfferedAndPricedPairsSelected ==
    (LinearReturned /\ solution.status = "Optimal") =>
        \A e \in DOMAIN solution.procurement_plan :
            solution.procurement_plan[e][2] > 0 =>
                OfferedAndPriced(data, solution.procurement_plan[e][1][1],
                                 solution.procurement_plan[e][1][2])

\* C6: the solution record returned by each of the three planners (exact,
\* discount-aware, heuristic) contains the keys 'procurement_plan',
\* 'shipments_plan' and 'inventory'.
C6_SolutionHasThreePlans ==
    pc = "returned" =>
        {"procurement_plan", "shipments_plan", "inventory"} \subseteq DOMAIN solution

\* C7: determinism of the heuristic planner: two runs of solve on identical inputs
\* (same records in the same order) produce identical procurement_plan,
\* shipments_plan and inventory maps: same keys, same values, same key order.
C7_HeuristicDeterministic ==
    (HeuristicReturned /\ run = 2) =>
        /\ solution.procurement_plan = first_solution.procurement_plan
        /\ solution.shipments_plan = first_solution.shipments_plan
        /\ solution.inventory = first_solution.inventory

\* a second run over a horizon of three periods that placed an order
C7_Witness ==
    /\ HeuristicReturned
    /\ run = 2
    /\ Len(periods) = 3
    /\ first_solution.shipments_plan # <<>>
    /\ solution.shipments_plan # <<>>

\* key a comes before key b in the order supplier, then product, then period
KeyBefore(a, b) ==
    \/ a[2] < b[2]
    \/ a[2] = b[2] /\ a[1] < b[1]
    \/ a[2] = b[2] /\ a[1] = b[1] /\ a[3] < b[3]

Procured(d, a, k, n) == Sum2(a[k][n].py, SupplierIdList(d))

\* what a returned plan procures for product pid in period t, over all suppliers
PlanProcured(pid, t) ==
    SumSeq([m \in DOMAIN data.suppliers |->
               DictGet(solution.procurement_plan, <<pid, data.suppliers[m].id, t>>, 0)])

RECURSIVE DemandUpTo(_, _, _, _)
DemandUpTo(d, per, pid, n) ==
    IF n = 0 THEN 0 ELSE DemandUpTo(d, per, pid, n - 1) + DemandGet(d, pid, per[n])

RECURSIVE ProcuredUpTo(_, _, _, _)
ProcuredUpTo(d, a, k, n) ==
    IF n = 0 THEN 0 ELSE ProcuredUpTo(d, a, k, n - 1) + Procured(d, a, k, n)

C13_DiscountCost ==
    (planner = "procurement_cost" /\ pc = "returned") =>
        LET qty == data.qty
            c == data.unit_cost
            T == IF data.discounts = NoDiscount THEN 0 ELSE data.discounts.threshold
            d == IF data.discounts = NoDiscount THEN 0 ELSE data.discounts.discount
            cost == solution.objective
        IN  /\ qty <= T => cost = qty * c * 100
            /\ qty > T => cost = T * c * 100 + (qty - T) * c * (100 - d)
            /\ data.discounts = NoDiscount => cost = qty * c * 100
            /\ (T = 10 /\ d = 20 /\ qty = 20) =>
                   /\ cost = 10 * c * 100 + 8 * c * 100
                   /\ c > 0 => cost < 20 * c * 100

\* the order of 20 units at threshold 10 and discount 0.2, priced at 2 a unit
C13_Witness ==
    /\ planner = "procurement_cost"
    /\ pc = "returned"
    /\ data.qty = 20
    /\ data.unit_cost = 2
    /\ data.discounts = [present |-> TRUE, threshold |-> 10, discount |-> 20]
    /\ solution.objective = 3600

\* C14: every order placed by the discount-aware planner is at least the product's
\* MOQ: no assignment admitted by its formulation has a strictly positive
\* procure[i,j,t] smaller than MOQ[i], and no plan returned with solver status
\* "ok" has such an entry.
C14_NonlinearOrdersAtLeastMoq ==
    /\ (planner = "nonlinear" /\ pc = "begin") =>
           \A per \in SortedPeriods(data) :
               \A a \in NonlinearFeasible(data, per) :
                   \A c \in DOMAIN a.procure :
                       a.procure[c] > 0 => a.procure[c] >= data.products[c[1]].MOQ
    /\ (planner = "nonlinear" /\ pc = "returned" /\ solution.status = "ok") =>
           \A e \in DOMAIN procurement_plan :
               \A k \in DOMAIN data.products :
                   data.products[k].id = procurement_plan[e][1][1] =>
                       procurement_plan[e][2] >= data.products[k].MOQ

\* some assignment of the product from period k on satisfies the constraints
RECURSIVE FeasibleExists(_, _, _, _, _)
FeasibleExists(d, per, prod, k, prev) ==
    \/ k > Len(per)
    \/ \E c \in PeriodChoices(d, per, prod, k, prev) :
           FeasibleExists(d, per, prod, k + 1, c.inv)

\* no assignment satisfies the exact planner's hard constraints
Infeasible(d, per) ==
    \E k \in DOMAIN d.products : ~FeasibleExists(d, per, d.products[k], 1, 0)

\* C15: when no assignment satisfies the exact planner's hard constraints (for
\* example a warehouse capacity too small for the required stock), solve raises no
\* exception and returns a solution record whose status is the solver's
\* non-optimal status (such as "Infeasible"), never "Optimal".
C15_InfeasibleReportedByStatus ==
    (planner = "linear" /\ pc # "begin" /\ Infeasible(data, periods)) =>
        /\ pc = "returned"
        /\ {"status", "objective", "procurement_plan", "inventory"} \subseteq DOMAIN solution
        /\ solution.status = "Infeasible"
        /\ solution.status # "Optimal"

\* an input whose safety stock of 1 can only be reached by an MOQ order of 2 that
\* does not fit the capacity of 1, returned as "Infeasible"
C15_Witness ==
    /\ LinearReturned
    /\ solution.status = "Infeasible"
    /\ Infeasible(data, periods)
    /\ \A k \in DOMAIN data.products : data.products[k].MOQ = 2
    /\ \A k \in DOMAIN data.inventory :
           /\ data.inventory[k].initial_stock = 0
           /\ data.inventory[k].safety_stock = 1
           /\ data.inventory[k].warehouse_capacity = 1

\* every demand and inventory record names a known product, every logistics
\* record a known supplier and a known product
ReferencesKnown(d) ==
    LET known_products == {d.products[k].id : k \in DOMAIN d.products}
        known_suppliers == {d.suppliers[k].id : k \in DOMAIN d.suppliers}
    IN  /\ {d.demand[k].product_id : k \in DOMAIN d.demand} \subseteq known_products
        /\ {d.inventory[k].product_id : k \in DOMAIN d.inventory} \subseteq known_products
        /\ {d.logistics_cost[k].product_id : k \in DOMAIN d.logistics_cost}
               \subseteq known_products
        /\ {d.logistics_cost[k].supplier_id : k \in DOMAIN d.logistics_cost}
               \subseteq known_suppliers

\* C16: validate_data returns True exactly when every demand and inventory record
\* references a known product id and every logistics record references a known
\* supplier id and a known product id; otherwise it raises ValueError; in both
\* cases it leaves the data unchanged.
C16_ValidateDataExact ==
    [][(planner = "validate" /\ pc = "begin") =>
           /\ data' = data
           /\ ReferencesKnown(data) => (pc' = "returned" /\ solution'.status = "True")
           /\ ~ReferencesKnown(data) =>
                  (pc' = "raised" /\ solution'.status = "ValueError")]_vars

\* a call that got past the demand, inventory and supplier checks and raised on a
\* logistics record naming an unknown product
C16_Witness ==
    /\ planner = "validate"
    /\ pc = "raised"
    /\ solution.message = "LogisticsCost references unknown product_id"
    /\ data.demand # <<>>
    /\ data.inventory # <<>>
    /\ Len(data.logistics_cost) = 2

\* C17: no planner modifies its input: over every step of HeuristicSolver.solve,
\* of the exact and the discount-aware planner's solve, and of a caller starting a
\* further run, the five input collections and every record in them are unchanged,
\* so a planner run after another one on the same data is given what it is given
\* alone; the heuristic's second run returns the record of its first.
C17_PlannersLeaveInputUnchanged ==
    [][/\ data' = data
       /\ (planner = "heuristic" /\ run = 2 /\ pc' = "returned") =>
              solution' = first_solution]_vars

\* a second heuristic run that ordered and whose running stock has left the
\* initial stock of the (untouched) inventory records
C17_Witness ==
    /\ HeuristicReturned
    /\ run = 2
    /\ procurement_plan # <<>>
    /\ \E k \in DOMAIN data.inventory :
           inv[data.inventory[k].product_id] # data.inventory[k].initial_stock

\* the suppliers (by position) the returned plan orders product pid from in period t
OrdersIn(pid, t) ==
    {m \in DOMAIN data.suppliers :
        DictGet(solution.procurement_plan, <<pid, data.suppliers[m].id, t>>, 0) > 0}

\* C18: end-to-end scenario (one product, one supplier, lead_time 1, MOQ 5, demand 0
\* in period 0 and 20 in period 1, initial stock 0, safety stock 0): the heuristic
\* planner either places an order of exactly 5 units in period 0 that arrives in
\* period 1, or places no order in period 0 and leaves period-1 demand not fully
\* met; in both cases it places at most one order for the product in each period.
C18_MinimalScenario ==
    (HeuristicReturned /\ data = MinimalData) =>
        /\ \/ /\ DictGet(solution.procurement_plan, <<1, 1, 0>>, 0) = 5
              /\ DictGet(solution.shipments_plan, <<1, 1, 1>>, 0) = 5
           \/ /\ OrdersIn(1, 0) = {}
              /\ DictGet(solution.inventory, <<1, 0>>, 0) + PlanArrivals(1, 1) < 20
              /\ DictGet(solution.inventory, <<1, 1>>, 0) = 0
        /\ \A n \in DOMAIN periods : Cardinality(OrdersIn(1, periods[n])) <= 1

\* the scenario's run has returned: no order in either period, and the demand of
\* 20 in period 1 meets an empty stock
C18_Witness ==
    /\ HeuristicReturned
    /\ data = MinimalData
    /\ periods = <<0, 1>>
    /\ solution.procurement_plan = <<<<<<1, 1, 0>>, 0>>, <<<<1, 1, 1>>, 0>>>>
    /\ solution.shipments_plan = <<>>
    /\ solution.inventory = <<<<<<1, 0>>, 0>>, <<<<1, 1>>, 0>>>>

\* the loop body has run for the product at position k and the period at index n
Processed(k, n) == n < t_idx \/ (n = t_idx /\ k < p_idx)

\* what the shipments plan built so far schedules for product pid to arrive in t
ScheduledArrivals(pid, t) ==
    SumSeq([m \in DOMAIN data.suppliers |->
               DictGet(shipments_plan, <<pid, data.suppliers[m].id, t>>, 0)])

\* C19: in the heuristic planner every scheduled shipment becomes usable stock
\* exactly once, at its arrival period: for every shipments_plan entry (p, s, a) of
\* quantity q, on-hand inventory of p is increased by q at the start of period a,
\* before period a's demand is deducted, and the ledger entry for a is then
\* cleared (no quantity is left in it); this holds for every lead time >= 0.
C19_ShipmentsBecomeStockOnce ==
    (planner = "heuristic" /\ pc \in {"loop", "returned"}) =>
        \A k \in DOMAIN data.products, n \in DOMAIN periods :
            LET pid == data.products[k].id
                a == periods[n]
                before == IF n = 1 THEN InventoryMap(data, pid).initial_stock
                          ELSE DictGet(inventory_plan, <<pid, periods[n - 1]>>, 0)
            IN  (Processed(k, n) /\ pid \in DOMAIN pending_shipments) =>
                    /\ DictGet(pending_shipments[pid], a, 0) = 0
                    /\ DictGet(inventory_plan, <<pid, a>>, 0)
                           = Max(0, before + ScheduledArrivals(pid, a)
                                        - DemandGet(data, pid, a))

\* the loop is about to run its body for a product that has a ledger
AtIteration ==
    /\ planner = "heuristic"
    /\ pc = "loop"
    /\ ~LoopDone
    /\ data.products[p_idx].id \in DOMAIN pending_shipments

\* on-hand inventory of the current product after the arrivals of the current period
OnHandAfterArrivals ==
    LET pid == data.products[p_idx].id
    IN  inv[pid] + DictGet(pending_shipments[pid], periods[t_idx], 0)

\* the ledger quantities of the current product, other than the arrivals just
\* applied, that are scheduled for a period up to and including period t
ScheduledBy(t) ==
    LET ledger == pending_shipments[data.products[p_idx].id]
    IN  SumSeq([e \in DOMAIN ledger |->
                   IF ledger[e][1] # periods[t_idx] /\ ledger[e][1] <= t
                   THEN ledger[e][2] ELSE 0])

\* the projection the loop body computes at this iteration (lines 37-42)
ProjectionHere ==
    LET pid == data.products[p_idx].id
    IN  ProjectInventoryWithLeadTimes(pid, periods[t_idx], OnHandAfterArrivals,
                                      DictDel(pending_shipments[pid], periods[t_idx]))

\* C20: heuristic projection: at a period t that is not the last, the projected
\* inventory of a product is max(0, on-hand inventory after period-t arrivals +
\* shipments scheduled to arrive by the next period - the next period's demand);
\* at the last period the projection equals the current on-hand inventory.
C20_HeuristicProjection ==
    AtIteration =>
        IF t_idx = Len(periods)
        THEN ProjectionHere = OnHandAfterArrivals
        ELSE ProjectionHere
                 = Max(0, OnHandAfterArrivals + ScheduledBy(periods[t_idx + 1])
                              - DemandGet(data, data.products[p_idx].id,
                                          periods[t_idx + 1]))

\* an iteration before the last period with a shipment pending for the next
\* period and a demand to set against it
C20_Witness ==
    /\ AtIteration
    /\ t_idx < Len(periods)
    /\ ScheduledBy(periods[t_idx + 1]) > 0
    /\ DemandGet(data, data.products[p_idx].id, periods[t_idx + 1]) > 0
    /\ ProjectionHere > 0

\* the suppliers (by position) under which the order ledger plan holds an entry for
\* product pid in period t
OrderKeys(plan, pid, t) ==
    {m \in DOMAIN data.suppliers : DictHas(plan, <<pid, data.suppliers[m].id, t>>)}

\* some supplier offers product pid and the product has a price for it
HasPricedOffer(pid) ==
    \E m \in DOMAIN data.suppliers : OfferedAndPriced(data, pid, data.suppliers[m].id)

\* C21: heuristic ordering rule: at the iteration of product p and period t an
\* order is recorded at (p, t) if and only if the projected inventory is strictly
\* below safety_stock[p] and some supplier offers p with a price; the order is
\* exactly MOQ[p] units; at most one order is placed per product per period; and
\* every value of the returned procurement_plan is 0 or MOQ[p].
C21_HeuristicOrderingRule ==
    [][/\ AtIteration =>
              LET p == data.products[p_idx]
                  t == periods[t_idx]
                  placed == OrderKeys(procurement_plan', p.id, t)
              IN  /\ OrderKeys(procurement_plan, p.id, t) = {}
                  /\ (placed # {}) <=>
                         (/\ ProjectionHere < InventoryMap(data, p.id).safety_stock
                          /\ HasPricedOffer(p.id))
                  /\ Cardinality(placed) <= 1
                  /\ \A m \in placed :
                         DictGet(procurement_plan', <<p.id, data.suppliers[m].id, t>>, 0)
                             = p.MOQ
                  /\ \A e \in DOMAIN procurement_plan' :
                         procurement_plan'[e][1][1] # p.id \/ procurement_plan'[e][1][3] # t
                             => InList(procurement_plan, procurement_plan'[e])
       /\ (planner = "heuristic" /\ pc' = "returned") =>
              \A e \in DOMAIN solution'.procurement_plan :
                  \E k \in DOMAIN data.products :
                      /\ data.products[k].id = solution'.procurement_plan[e][1][1]
                      /\ solution'.procurement_plan[e][2] \in {0, data.products[k].MOQ}
      ]_vars

\* a run that has ordered a positive MOQ for one (product, period) and has passed
\* another (product, period) of a product with a priced offer without ordering
C21_Witness ==
    /\ planner = "heuristic"
    /\ pc = "loop"
    /\ \E e \in DOMAIN procurement_plan : procurement_plan[e][2] > 0
    /\ \E k \in DOMAIN data.products, n \in DOMAIN periods :
           /\ Processed(k, n)
           /\ HasPricedOffer(data.products[k].id)
           /\ OrderKeys(procurement_plan, data.products[k].id, periods[n]) = {}

\* the position of supplier sid in the supplier collection
SupplierPos(sid) == CHOOSE m \in DOMAIN data.suppliers : data.suppliers[m].id = sid

\* the unit price product pid has for supplier sid (the pair is priced)
PriceOf(pid, sid) ==
    LET k == CHOOSE q \in DOMAIN data.products : data.products[q].id = pid
    IN  data.products[k].unit_cost_by_supplier[sid]

\* C22: heuristic supplier selection: the supplier chosen for an order of product
\* p lists p in products_offered, has a price for p, and has the minimum unit cost
\* among all such suppliers; among suppliers of equal minimum cost the one earliest
\* in the supplier collection is chosen; a supplier that does not offer p is never
\* chosen, even if it has the lowest price.
C22_HeuristicSupplierSelection ==
    (planner = "heuristic" /\ pc \in {"loop", "returned"}) =>
        \A e \in DOMAIN procurement_plan :
            LET pid == procurement_plan[e][1][1]
                sid == procurement_plan[e][1][2]
            IN  /\ OfferedAndPriced(data, pid, sid)
                /\ \A m \in DOMAIN data.suppliers :
                       LET other == data.suppliers[m].id
                       IN  OfferedAndPriced(data, pid, other) =>
                               \/ PriceOf(pid, sid) < PriceOf(pid, other)
                               \/ /\ PriceOf(pid, sid) = PriceOf(pid, other)
                                  /\ SupplierPos(sid) <= m

\* an order went to the first of two suppliers that offer the product at the same
\* price
C22_Witness ==
    /\ HeuristicReturned
    /\ Len(data.suppliers) = 2
    /\ \E e \in DOMAIN procurement_plan :
           LET pid == procurement_plan[e][1][1]
           IN  /\ procurement_plan[e][1][2] = data.suppliers[1].id
               /\ procurement_plan[e][2] > 0
               /\ OfferedAndPriced(data, pid, data.suppliers[2].id)
               /\ PriceOf(pid, data.suppliers[1].id) = PriceOf(pid, data.suppliers[2].id)

\* an order went to the dearer supplier because the cheaper one does not offer the
\* product
C22_NotOfferedPassedOver ==
    /\ HeuristicReturned
    /\ Len(data.suppliers) = 2
    /\ \E e \in DOMAIN procurement_plan :
           LET pid == procurement_plan[e][1][1]
               sid == procurement_plan[e][1][2]
           IN  \E m \in DOMAIN data.suppliers :
                   LET other == data.suppliers[m].id
                   IN  /\ pid \notin data.suppliers[m].products_offered
                       /\ other \in DOMAIN data.products[1].unit_cost_by_supplier
                       /\ data.products[1].id = pid
                       /\ data.products[1].unit_cost_by_supplier[other] < PriceOf(pid, sid)

\* C23: heuristic shipment scheduling: for every order of MOQ > 0 units placed at
\* (p, s, t) with lead time L = lead_time[s,p] (0 if unspecified), the shipments
\* plan has an entry (p, s, t+L) whose quantity equals the ordered quantity whenever
\* t+L is not beyond the last period of the horizon, and the shipment is dropped
\* (procurement entry kept, no shipment entry) only when t+L is beyond the horizon.
C23_HeuristicShipmentScheduling ==
    HeuristicReturned =>
        \A e \in DOMAIN solution.procurement_plan :
            LET pid == solution.procurement_plan[e][1][1]
                sid == solution.procurement_plan[e][1][2]
                t == solution.procurement_plan[e][1][3]
                qty == solution.procurement_plan[e][2]
                arrival == t + LeadTimeMapGet(data, sid, pid)
            IN  qty > 0 =>
                    IF arrival <= periods[Len(periods)]
                    THEN DictGet(solution.shipments_plan, <<pid, sid, arrival>>, 0) = qty
                    ELSE ~DictHas(solution.shipments_plan, <<pid, sid, arrival>>)

NonlinearReturned == planner = "nonlinear" /\ pc = "returned"

\* the strictly positive entries of the returned procurement plan
PositiveOrders == SelectSeq(solution.procurement_plan, LAMBDA e : e[2] > 0)

\* C24: shipments plan of the discount-aware planner: for every strictly positive
\* procurement entry (i, j, t) with lead time L = lead_time[j,i],
\* shipments_plan[(i, j, t+L)] equals that procured quantity when t+L lies in the
\* planning horizon and no entry exists for it otherwise; the shipments plan has no
\* other entries, so every shipment key names a period of the horizon.
C24_NonlinearShipmentsPlan ==
    NonlinearReturned =>
        /\ \A e \in DOMAIN PositiveOrders :
               LET key == PositiveOrders[e][1]
                   arrival == key[3] + LeadTimeMapGet(data, key[2], key[1])
                   landing == <<key[1], key[2], arrival>>
               IN  IF arrival \in Range(periods)
                   THEN /\ DictHas(solution.shipments_plan, landing)
                        /\ DictGet(solution.shipments_plan, landing, 0) = PositiveOrders[e][2]
                   ELSE ~DictHas(solution.shipments_plan, landing)
        /\ \A x \in DOMAIN solution.shipments_plan :
               LET landing == solution.shipments_plan[x][1]
               IN  /\ landing[3] \in Range(periods)
                   /\ \E e \in DOMAIN PositiveOrders :
                          LET key == PositiveOrders[e][1]
                          IN  /\ key[1] = landing[1]
                              /\ key[2] = landing[2]
                              /\ key[3] + LeadTimeMapGet(data, key[2], key[1]) = landing[3]
        /\ \A x, y \in DOMAIN solution.shipments_plan :
               solution.shipments_plan[x][1] = solution.shipments_plan[y][1] => x = y

\* a returned plan with one order that lands in the horizon after a lead time of one
\* period or more, and one order that lands beyond it and has no shipment entry
C24_Witness ==
    /\ NonlinearReturned
    /\ \E e \in DOMAIN PositiveOrders :
           LET key == PositiveOrders[e][1]
               lead == LeadTimeMapGet(data, key[2], key[1])
           IN  /\ lead >= 1
               /\ DictGet(solution.shipments_plan, <<key[1], key[2], key[3] + lead>>, 0) > 0
    /\ \E e \in DOMAIN PositiveOrders :
           LET key == PositiveOrders[e][1]
           IN  key[3] + LeadTimeMapGet(data, key[2], key[1]) \notin Range(periods)

\* the order of product k from supplier m placed in period index o enters the
\* balance of period index n
CountedIn(d, per, k, m, o, n) ==
    LET lead == LeadTimeMapGet(d, d.suppliers[m].id, d.products[k].id)
    IN  IF n = 1 THEN o = 1 /\ lead = 0 ELSE per[o] + lead = per[n]

\* what the returned plan brings into the balance of product k in period index n
PlanReceived(k, n) ==
    SumSeq([m \in DOMAIN data.suppliers |->
        SumSeq([o \in DOMAIN periods |->
            IF CountedIn(data, periods, k, m, o, n)
            THEN DictGet(solution.procurement_plan,
                         <<data.products[k].id, data.suppliers[m].id, periods[o]>>, 0)
            ELSE 0])])

\* C25: lead-time-aware balance of the discount-aware planner: in every assignment
\* satisfying its constraints, inv[i,first] = initial_stock[i] + sum of
\* procure[i,j,first] over suppliers j with lead time 0 - demand[i,first], and for
\* every later period t, inv[i,t] = inv[i,t-1] + sum of procure[i,j,t'] over all
\* (j, t') with t' + lead_time[j,i] = t - demand[i,t]; each procure[i,j,t'] is
\* counted in at most one period's balance.  Every assignment satisfying the
\* constraints is a plan the planner may return with solver status "ok", and the
\* identity is stated on those plans.
C25_NonlinearLeadTimeBalance ==
    /\ (planner = "nonlinear" /\ pc = "begin") =>
           \A per \in SortedPeriods(data) :
               \A k \in DOMAIN data.products, m \in DOMAIN data.suppliers,
                     o \in DOMAIN per :
                   Cardinality({n \in DOMAIN per : CountedIn(data, per, k, m, o, n)}) <= 1
    /\ (NonlinearReturned /\ solution.status = "ok") =>
           \A k \in DOMAIN data.products, n \in DOMAIN periods :
               LET pid == data.products[k].id
                   previous == IF n = 1 THEN InventoryMap(data, pid).initial_stock
                               ELSE DictGet(solution.inventory, <<pid, periods[n - 1]>>, 0)
               IN  DictGet(solution.inventory, <<pid, periods[n]>>, 0)
                       = previous + PlanReceived(k, n) - DemandGet(data, pid, periods[n])

\* a plan returned with status "ok" in which an order placed in the first period
\* with a lead time of one period is absent from the first period's stock and
\* present in the second period's
C25_Witness ==
    /\ NonlinearReturned
    /\ solution.status = "ok"
    /\ Len(periods) = 2
    /\ \E e \in DOMAIN PositiveOrders :
           LET key == PositiveOrders[e][1]
           IN  /\ key[3] = periods[1]
               /\ key[3] + LeadTimeMapGet(data, key[2], key[1]) = periods[2]
               /\ DictGet(solution.inventory, <<key[1], periods[1]>>, 0)
                      < DictGet(solution.inventory, <<key[1], periods[2]>>, 0)

\* period index n lies after the shelf life of the product at position k
Expired(d, per, k, n) == per[n] > per[1] + d.products[k].expiration_periods

\* C26: shelf life in the exact planner, and likewise in the discount-aware
\* planner: in every assignment satisfying the constraints, inv[i,t] = 0 for every
\* product i and every period t with t > first_period + expiration_periods[i];
\* periods with t <= first_period + expiration_periods[i] get no such constraint
\* (the row accepts every value of inv[i,t]).  The exact planner returns only the
\* least-cost assignments, so its constraint set is examined as a whole; every
\* assignment satisfying the discount-aware planner's constraints is a plan it may
\* return with status "ok".
C26_ShelfLife ==
    /\ (planner = "linear" /\ pc = "begin") =>
           \A per \in SortedPeriods(data) :
               /\ \A a \in LinearFeasible(data, per) :
                      \A k \in DOMAIN data.products, n \in DOMAIN per :
                          Expired(data, per, k, n) => a[k][n].inv = 0
               /\ \A k \in DOMAIN data.products, n \in DOMAIN per, v \in 0..MaxProcure :
                      ~Expired(data, per, k, n) =>
                          Expiration(data, per, data.products[k], per[n], v)
    /\ (planner = "nonlinear" /\ pc = "begin") =>
           \A per \in SortedPeriods(data) :
               \A k \in DOMAIN data.products, n \in DOMAIN per, v \in 0..MaxProcure :
                   ~Expired(data, per, k, n) => ShelfLifeRule(data, per, k, n, v)
    /\ (pc = "returned" /\ solution.status \in {"Optimal", "ok"}) =>
           \A k \in DOMAIN data.products, n \in DOMAIN periods :
               Expired(data, periods, k, n) =>
                   DictGet(solution.inventory, <<data.products[k].id, periods[n]>>, 0) = 0

\* an Optimal plan of the exact planner for a product whose shelf life ends with
\* the first period: stock is held in the first period and none in the second
C26_Witness ==
    /\ LinearReturned
    /\ solution.status = "Optimal"
    /\ Len(periods) = 2
    /\ Expired(data, periods, 1, 2)
    /\ ~Expired(data, periods, 1, 1)
    /\ DictGet(solution.inventory, <<data.products[1].id, periods[1]>>, 0) > 0
    /\ DictGet(solution.inventory, <<data.products[1].id, periods[2]>>, 0) = 0

\* the same for a plan the discount-aware planner returns with status "ok"
C26_NonlinearHolds ==
    /\ NonlinearReturned
    /\ solution.status = "ok"
    /\ Len(periods) = 2
    /\ Expired(data, periods, 1, 2)
    /\ ~Expired(data, periods, 1, 1)
    /\ DictGet(solution.inventory, <<data.products[1].id, periods[1]>>, 0) > 0
    /\ DictGet(solution.inventory, <<data.products[1].id, periods[2]>>, 0) = 0

\* the input with every fixed_cost of the logistics table replaced by c
WithFixedCost(d, c) ==
    [d EXCEPT !.logistics_cost =
        [k \in DOMAIN d.logistics_cost |-> [d.logistics_cost[k] EXCEPT !.fixed_cost = c]]]

\* the record of product pid
ProductOf(pid) == data.products[CHOOSE k \in DOMAIN data.products : data.products[k].id = pid]

\* purchase, per-unit logistics and holding cost of the returned plan
PlanPurchaseCost ==
    SumSeq([e \in DOMAIN solution.procurement_plan |->
        solution.procurement_plan[e][2]
            * LinearUnitCost(ProductOf(solution.procurement_plan[e][1][1]),
                             solution.procurement_plan[e][1][2])])

PlanLogisticsCost ==
    SumSeq([e \in DOMAIN solution.procurement_plan |->
        LET key == solution.procurement_plan[e][1]
        IN  IF LogisticsHas(data, key[2], key[1])
            THEN solution.procurement_plan[e][2]
                     * LogisticsMap(data, key[2], key[1]).cost_per_unit
            ELSE 0])

PlanHoldingCost ==
    SumSeq([e \in DOMAIN solution.inventory |->
        solution.inventory[e][2]
            * InventoryMap(data, solution.inventory[e][1][1]).holding_cost])

\* C27: objective of the exact planner: for every assignment, the objective value
\* equals the sum of procure[i,j,t]*unit_cost[i][j] + the sum of
\* procure[i,j,t]*cost_per_unit[j,i] over the pairs present in the logistics table
\* + the sum of inv[i,t]*holding_cost[i]; the logistics fixed_cost changes the
\* objective value of no plan.
C27_ExactObjective ==
    /\ LinearReturned =>
           solution.objective = PlanPurchaseCost + PlanLogisticsCost + PlanHoldingCost
    /\ (planner = "linear" /\ pc = "begin") =>
           \A per \in SortedPeriods(data) :
               \A a \in LinearFeasible(data, per) :
                   \A c \in {0, 1} :
                       LinearObjective(WithFixedCost(data, c), per, a)
                           = LinearObjective(data, per, a)

\* an Optimal plan that orders from a pair of the logistics table, whose fixed_cost
\* is positive, and holds stock
C27_Witness ==
    /\ LinearReturned
    /\ solution.status = "Optimal"
    /\ solution.inventory # <<>>
    /\ \E e \in DOMAIN solution.procurement_plan :
           LET key == solution.procurement_plan[e][1]
           IN  /\ LogisticsHas(data, key[2], key[1])
               /\ LogisticsMap(data, key[2], key[1]).fixed_cost > 0
    /\ solution.objective > 0

\* the products (by position) that have an inventory record with safety_stock 0
NoSafetyStock ==
    {k \in DOMAIN data.products :
        /\ data.products[k].id \in InventoryIds(data)
        /\ InventoryMap(data, data.products[k].id).safety_stock = 0}

C29_LedgerHoldsNothingDue ==
    /\ (planner = "heuristic" /\ pc \in {"loop", "returned"}) =>
           \A k \in DOMAIN data.products, n \in DOMAIN periods :
               LET pid == data.products[k].id
               IN  (Processed(k, n) /\ pid \in DOMAIN pending_shipments) =>
                       \A e \in DOMAIN pending_shipments[pid] :
                           pending_shipments[pid][e][1] <= periods[n] =>
                               pending_shipments[pid][e][2] = 0
    /\ (AtIteration /\ t_idx < Len(periods)) =>
           ScheduledBy(periods[t_idx + 1])
               = DictGet(pending_shipments[data.products[p_idx].id], periods[t_idx + 1], 0)

\* some product has a positive safety stock and a period of the horizon after its
\* shelf life
SafetyStockPastShelfLife(d, per) ==
    \E k \in DOMAIN d.products, n \in DOMAIN per :
        /\ d.products[k].id \in InventoryIds(d)
        /\ InventoryMap(d, d.products[k].id).safety_stock > 0
        /\ per[n] > per[1] + d.products[k].expiration_periods

\* C30: if a product has safety_stock > 0 and the horizon contains a period
\* t > first_period + expiration_periods of that product, then no assignment
\* satisfies the exact planner's constraints (shelf life forces inv = 0 while
\* safety stock forces inv >= safety_stock), so the exact planner never returns
\* status "Optimal" for such an input.
C30_SafetyStockPastShelfLifeInfeasible ==
    /\ (planner = "linear" /\ pc = "begin") =>
           \A per \in SortedPeriods(data) :
               SafetyStockPastShelfLife(data, per) => LinearFeasible(data, per) = {}
    /\ (LinearReturned /\ SafetyStockPastShelfLife(data, periods)) =>
           solution.status # "Optimal"

\* such an input has been solved: the safety stock fits the warehouse, the product
\* is offered and priced, and the record returned is not "Optimal"
C30_Witness ==
    /\ LinearReturned
    /\ SafetyStockPastShelfLife(data, periods)
    /\ solution.status = "Infeasible"
    /\ \A k \in DOMAIN data.products : data.products[k].MOQ <= 1
    /\ \A k \in DOMAIN data.inventory :
           data.inventory[k].safety_stock <= data.inventory[k].warehouse_capacity
    /\ \E m \in DOMAIN data.suppliers :
           OfferedAndPriced(data, data.products[1].id, data.suppliers[m].id)

====
